---------------------------- MODULE Spec2Model ----------------------------
(***************************************************************************)
(* A model of get_yfinance.py: the two formatting helpers, the major-      *)
(* holders resolver, the per-ticker fetch loop and the projection of the   *)
(* raw rows onto the cleaned table.                                        *)
(*                                                                         *)
(* Python values are tagged records: None, the float nan, a str and a      *)
(* number.  A number is a sign and a magnitude in three limbs,             *)
(*     |x| = w1 * 10^6 + w0 + f / 10^4      (0 <= w0 < 10^6, 0 <= f < 10^4)*)
(* so that the thresholds 10^6, 10^9 and 10^12 of format_number and the    *)
(* fractions format_percent multiplies by 100 are both exact in 32 bits.   *)
(* Python strings are TLA+ strings; float() and the f-string rendering are *)
(* computed character by character.                                        *)
(***************************************************************************)
EXTENDS Integers, Sequences, FiniteSets, TLC

VARIABLES
    tickers,    \* the input ticker list (line 121 / 124)
    i,          \* enumerate index of the for loop (line 129), 1-based
    pc,         \* position of the main script
    info,       \* the local dict `info` between lines 134 and 137
    raw_rows,   \* the list raw_rows (line 128)
    log,        \* history: every remote lookup and every sleep, in order
    raw_df,     \* pd.DataFrame(raw_rows) (line 147)
    clean_df,   \* clean_info(raw_df) (line 148)
    call        \* a single call of a helper: [fn, arg, ret]

vars == <<tickers, i, pc, info, raw_rows, log, raw_df, clean_df, call>>

-----------------------------------------------------------------------------
(* Bounds of the model. *)

MaxTickers == 3

MaxRows == 2

-----------------------------------------------------------------------------
(* Python values. *)

None == [t |-> "None"]

NaN == [t |-> "nan"]

Str(s) == [t |-> "str", s |-> s]

Num(neg, w1, w0, f) == [t |-> "num", neg |-> neg, w1 |-> w1, w0 |-> w0, f |-> f]

IsNum(v) == v.t = "num"

IsStr(v) == v.t = "str"

\* pd.isna: None and nan are pandas' missing values
IsAbsent(v) == v \in {None, NaN}

Limb == 10^6

FracUnit == 10^4

\* a small non-negative integer, a signed integer n (|n| < 10^6) and a
\* number given in ten-thousandths (|n| < 10^10 / 10^4), as Python numbers
Whole(n) == Num(n < 0, 0, IF n < 0 THEN -n ELSE n, 0)

Fix(n) ==
    LET m == IF n < 0 THEN -n ELSE n
    IN  Num(n < 0, 0, m \div FracUnit, m % FracUnit)

\* the signed value of a number below 10^5 in ten-thousandths
ToFix(x) == (IF x.neg THEN -1 ELSE 1) * (x.w0 * FracUnit + x.f)

-----------------------------------------------------------------------------
(* float(str): optional sign, digits, optional point and digits, or "nan". *)
(* The strings of the model have no blanks, no exponent, at most 15        *)
(* integer digits and at most 4 fractional digits.                         *)

ValueError == [t |-> "ValueError"]

Char(s, k) == SubSeq(s, k, k)

DigitChars == <<"0", "1", "2", "3", "4", "5", "6", "7", "8", "9">>

IsDigit(c) == \E k \in 1..10 : DigitChars[k] = c

DigitVal(c) == (CHOOSE k \in 1..10 : DigitChars[k] = c) - 1

AllDigits(s) == \A k \in 1..Len(s) : IsDigit(Char(s, k))

RECURSIVE DecVal(_)
DecVal(s) ==
    IF Len(s) = 0 THEN 0
    ELSE DecVal(SubSeq(s, 1, Len(s) - 1)) * 10 + DigitVal(Char(s, Len(s)))

RECURSIVE Pow10(_)
Pow10(k) == IF k = 0 THEN 1 ELSE 10 * Pow10(k - 1)

\* position of the first "." of s, or 0
PointAt(s) ==
    IF \E k \in 1..Len(s) : Char(s, k) = "."
    THEN CHOOSE k \in 1..Len(s) :
            Char(s, k) = "." /\ \A j \in 1..(k - 1) : Char(s, j) # "."
    ELSE 0

ParseUnsigned(neg, s) ==
    LET dot  == PointAt(s)
        ip   == IF dot = 0 THEN s ELSE SubSeq(s, 1, dot - 1)
        fp   == IF dot = 0 THEN "" ELSE SubSeq(s, dot + 1, Len(s))
        cut  == IF Len(ip) > 6 THEN Len(ip) - 6 ELSE 0
    IN  IF Len(ip) + Len(fp) = 0 \/ ~AllDigits(ip) \/ ~AllDigits(fp)
        THEN ValueError
        ELSE Num(neg,
                 DecVal(SubSeq(ip, 1, cut)),
                 DecVal(SubSeq(ip, cut + 1, Len(ip))),
                 DecVal(fp) * Pow10(4 - Len(fp)))

ParseFloat(s) ==
    IF s = "nan" THEN NaN
    ELSE IF Len(s) > 0 /\ Char(s, 1) = "-" THEN ParseUnsigned(TRUE, SubSeq(s, 2, Len(s)))
    ELSE IF Len(s) > 0 /\ Char(s, 1) = "+" THEN ParseUnsigned(FALSE, SubSeq(s, 2, Len(s)))
    ELSE ParseUnsigned(FALSE, s)

\* float(v) of a value that is not None: a number or nan is itself, a str is
\* parsed (ValueError); lines 25 and 41
Float(v) == IF IsStr(v) THEN ParseFloat(v.s) ELSE v

-----------------------------------------------------------------------------
(* f"{x:.2f}": the magnitude is cut to hundredths, [w1, w0, c] with c the   *)
(* hundredths digit pair and cmp the sign of (what was cut off - half a    *)
(* hundredth); then rounded and printed with the sign (-0.001 prints as    *)
(* "-0.00").  An exact half goes to the even neighbour, as for the halves  *)
(* a binary float holds exactly; the numbers of the model sit on no half,  *)
(* where the binary expansion of the float would decide.                   *)

Cmp3(a, b, c, half) ==
    IF a > half THEN 1
    ELSE IF a < half THEN -1
    ELSE IF b > 0 \/ c > 0 THEN 1 ELSE 0

\* |x| / 10^k in hundredths, k in {0, 6, 9, 12}
Scaled(x, k) ==
    CASE k = 0  -> [w1 |-> x.w1, w0 |-> x.w0, c |-> x.f \div 100,
                    cmp |-> Cmp3(x.f % 100, 0, 0, 50)]
      [] k = 6  -> [w1 |-> x.w1 \div Limb, w0 |-> x.w1 % Limb,
                    c |-> x.w0 \div 10000,
                    cmp |-> Cmp3(x.w0 % 10000, x.f, 0, 5000)]
      [] k = 9  -> [w1 |-> 0, w0 |-> x.w1 \div 1000,
                    c |-> (x.w1 % 1000) \div 10,
                    cmp |-> Cmp3(x.w1 % 10, x.w0, x.f, 5)]
      [] k = 12 -> [w1 |-> 0, w0 |-> x.w1 \div Limb,
                    c |-> (x.w1 % Limb) \div 10000,
                    cmp |-> Cmp3(x.w1 % 10000, x.w0, x.f, 5000)]

\* |x| * 100 in hundredths: exact
Times100(x) ==
    LET u == x.w0 * 100 + x.f \div 100
    IN  [w1 |-> x.w1 * 100 + u \div Limb, w0 |-> u % Limb,
         c |-> x.f % 100, cmp |-> -1]

Pad(n, width) == SubSeq(ToString(Pow10(width) + n), 2, width + 1)

Fixed2(neg, h) ==
    LET up == h.cmp > 0 \/ (h.cmp = 0 /\ h.c % 2 = 1)
        c1 == IF up THEN h.c + 1 ELSE h.c
        u0 == IF c1 = 100 THEN h.w0 + 1 ELSE h.w0
        c  == c1 % 100
        w0 == u0 % Limb
        w1 == IF u0 = Limb THEN h.w1 + 1 ELSE h.w1
    IN  (IF neg THEN "-" ELSE "")
        \o (IF w1 > 0 THEN ToString(w1) \o Pad(w0, 6) ELSE ToString(w0))
        \o "." \o Pad(c, 2)

-----------------------------------------------------------------------------
(* Formatting helpers. *)

\* the three thresholds of format_number, as values of the limb w1
TrillionW1 == 1000000

BillionW1 == 1000

MillionW1 == 1

\* fault: the thresholds compared with n instead of abs(n)
NumberScaleNoAbs(n) ==
    IF n = NaN \/ n.neg THEN 0
    ELSE IF n.w1 >= TrillionW1 THEN 12
    ELSE IF n.w1 >= BillionW1 THEN 9
    ELSE IF n.w1 >= MillionW1 THEN 6
    ELSE 0

\* which branch of lines 28-35 a float takes: the power of ten it divides by
NumberScale(n) ==
    IF n = NaN THEN 0
    ELSE IF n.w1 >= TrillionW1 THEN 12
    ELSE IF n.w1 >= BillionW1 THEN 9
    ELSE IF n.w1 >= MillionW1 THEN 6
    ELSE 0

NumberSuffix(k) ==
    CASE k = 12 -> " T" [] k = 9 -> " B" [] k = 6 -> " M" [] k = 0 -> ""

format_number(n) ==
    IF n = None THEN None
    ELSE LET x == Float(n)
         IN  IF x = ValueError THEN n
             ELSE IF x = NaN THEN Str("nan")
             ELSE Str(Fixed2(x.neg, Scaled(x, NumberScale(x)))
                      \o NumberSuffix(NumberScale(x)))

\* p > 1 of line 41: a str against an int raises TypeError, which line 42
\* catches
ComparisonRaises(p) == IsStr(p)

\* fault: p >= 1
GreaterOrEqualOne(p) ==
    IF p = NaN THEN FALSE
    ELSE ~p.neg /\ (p.w1 > 0 \/ p.w0 >= 1)

\* p > 1 of a number; nan > 1 is False
GreaterThanOne(p) ==
    IF p = NaN THEN FALSE
    ELSE ~p.neg /\ (p.w1 > 0 \/ p.w0 > 1 \/ (p.w0 = 1 /\ p.f > 0))

format_percent(p) ==
    IF p = None THEN None
    ELSE IF ComparisonRaises(p) THEN p
    ELSE IF p = NaN THEN Str("nan%")
    ELSE IF GreaterThanOne(p) THEN Str(Fixed2(p.neg, Scaled(p, 0)) \o "%")
    ELSE Str(Fixed2(p.neg, Times100(p)) \o "%")

-----------------------------------------------------------------------------
(* parse_major_holders.  The remote lookup t.major_holders answers with an  *)
(* exception, with None, or with a table of ncols columns whose rows are   *)
(* <<label, value>> pairs (column 1 is missing when ncols = 1).  A raised  *)
(* exception is a value here, so that what the try block lets through is   *)
(* visible to the caller.                                                  *)

Raised(exc) == [t |-> "raise", exc |-> exc]

IsRaised(v) == "t" \in DOMAIN v /\ v.t = "raise"

HoldersNone == [t |-> "none"]

Table(ncols, rows) == [t |-> "table", ncols |-> ncols, rows |-> rows]

OwnershipKeys == {"Insider (%)", "Institutional (%)", "Float / Retail (%)"}

\* pd.Series(dict): one dtype for the whole Series, so a None beside a float
\* becomes nan (float64) and a Series of None only keeps None (object)
Series(d) ==
    IF \E k \in DOMAIN d : IsNum(d[k])
    THEN [k \in DOMAIN d |-> IF d[k] = None THEN NaN ELSE d[k]]
    ELSE d

AllNone == Series([k \in OwnershipKeys |-> None])

\* major.empty: no rows or no columns
Empty(major) == Len(major.rows) = 0 \/ major.ncols = 0

\* dict(zip(col0, col1)).get(label, None): the last row with the label wins
DictGet(rows, label) ==
    IF \E r \in 1..Len(rows) : rows[r][1] = label
    THEN rows[CHOOSE r \in 1..Len(rows) :
                /\ rows[r][1] = label
                /\ \A q \in (r + 1)..Len(rows) : rows[q][1] # label][2]
    ELSE None

\* str.strip('%'): every leading and trailing "%"
RECURSIVE Strip(_)
Strip(s) ==
    IF Len(s) > 0 /\ Char(s, 1) = "%" THEN Strip(SubSeq(s, 2, Len(s)))
    ELSE IF Len(s) > 0 /\ Char(s, Len(s)) = "%" THEN Strip(SubSeq(s, 1, Len(s) - 1))
    ELSE s

\* lines 57-60; the cells of the table are strings, none of them "nan"
pct_to_float(val) ==
    IF val = None THEN None
    ELSE LET x == ParseFloat(Strip(val.s))
         IN  IF x = ValueError THEN Raised("ValueError") ELSE x

\* a - b on percentages, as exact decimals below 10^5 (the float result
\* differs from it by rounding only)
Minus(a, b) == Fix(ToFix(a) - ToFix(b))

Hundred == Whole(100)

\* fault: the insider share never subtracted
FloatPctIgnoresInsider(insider_pct, inst_pct) ==
    IF inst_pct = None THEN None ELSE Minus(Hundred, inst_pct)

\* lines 64-66
FloatPct(insider_pct, inst_pct) ==
    IF inst_pct = None THEN None
    ELSE IF insider_pct = None THEN Minus(Hundred, inst_pct)
    ELSE Minus(Minus(Hundred, inst_pct), insider_pct)

\* lines 48-72, the body of the try: a Series or the exception it raises
HoldersBody(resp) ==
    IF IsRaised(resp) THEN resp
    ELSE IF resp = HoldersNone \/ Empty(resp) THEN AllNone
    ELSE IF resp.ncols < 2 THEN Raised("IndexError")
    ELSE LET insider_pct == pct_to_float(DictGet(resp.rows, "Insiders (%)"))
             inst_pct    == pct_to_float(DictGet(resp.rows, "Institutions"))
         IN  IF IsRaised(insider_pct) THEN insider_pct
             ELSE IF IsRaised(inst_pct) THEN inst_pct
             ELSE Series([k \in OwnershipKeys |->
                     CASE k = "Insider (%)" -> insider_pct
                       [] k = "Institutional (%)" -> inst_pct
                       [] k = "Float / Retail (%)" -> FloatPct(insider_pct, inst_pct)])

\* fault: an except clause for the errors of the lookup only
ExceptNetworkOnly(r) == IsRaised(r) /\ r.exc = "ConnectionError"

\* line 73: `except Exception` catches whatever the body raises
Caught(r) == IsRaised(r)

parse_major_holders(resp) ==
    LET r == HoldersBody(resp)
    IN  IF Caught(r) THEN AllNone ELSE r

-----------------------------------------------------------------------------
(* pandas: pd.DataFrame(list of dicts) and the cleaned projection.  A       *)
(* frame is column-major: its column names in order and, per column, the   *)
(* cells of the rows.                                                      *)

Update(d, e) ==
    [k \in DOMAIN d \cup DOMAIN e |-> IF k \in DOMAIN e THEN e[k] ELSE d[k]]

Frame(columns, data) == [columns |-> columns, data |-> data]

EmptyFrame == Frame(<<>>, <<>>)

NRows(df) == IF Len(df.columns) = 0 THEN 0 ELSE Len(df.data[df.columns[1]])

Names(df) == {df.columns[k] : k \in 1..Len(df.columns)}

\* a column of numbers (and None, and holes) is float64, anything else object
NumericColumn(rows, c) ==
    /\ \E r \in 1..Len(rows) : c \in DOMAIN rows[r] /\ IsNum(rows[r][c])
    /\ \A r \in 1..Len(rows) :
          c \in DOMAIN rows[r] => (IsNum(rows[r][c]) \/ IsAbsent(rows[r][c]))

\* a key a row lacks is nan; a None of a float64 column is nan
Cell(rows, r, c) ==
    IF c \notin DOMAIN rows[r] THEN NaN
    ELSE IF rows[r][c] = None /\ NumericColumn(rows, c) THEN NaN
    ELSE rows[r][c]

\* the set of keys as a sequence (the order of the raw columns is not read
\* by clean_info, which only tests membership and selects by name)
RECURSIVE SetToSeq(_)
SetToSeq(S) ==
    IF S = {} THEN <<>>
    ELSE LET x == CHOOSE y \in S : TRUE IN <<x>> \o SetToSeq(S \ {x})

\* line 147
DataFrame(rows) ==
    LET keys == UNION {DOMAIN rows[r] : r \in 1..Len(rows)}
    IN  Frame(SetToSeq(keys),
              [c \in keys |-> [r \in 1..Len(rows) |-> Cell(rows, r, c)]])

\* lines 78-99
fields == <<
    <<"Ticker", "_ticker">>,
    <<"Name", "shortName">>,
    <<"Sector", "sector">>,
    <<"Industry", "industry">>,
    <<"Current Price", "currentPrice">>,
    <<"52W High", "fiftyTwoWeekHigh">>,
    <<"52W Low", "fiftyTwoWeekLow">>,
    <<"Market Cap", "marketCap">>,
    <<"P/E (Trailing)", "trailingPE">>,
    <<"P/E (Forward)", "forwardPE">>,
    <<"Beta", "beta">>,
    <<"Dividend Yield", "dividendYield">>,
    <<"Price to Book", "priceToBook">>,
    <<"EPS", "trailingEps">>,
    <<"Revenue", "totalRevenue">>,
    <<"Gross Margins", "grossMargins">>,
    <<"Profit Margins", "profitMargins">>,
    <<"Insider (%)", "Insider (%)">>,
    <<"Institutional (%)", "Institutional (%)">>,
    <<"Float / Retail (%)", "Float / Retail (%)">> >>

\* the index of df: the first assignment of the loop gives it the rows of
\* raw_df (every row has "_ticker"), or no row when raw_df has no column
Index(raw) == IF fields[1][2] \in Names(raw) THEN NRows(raw) ELSE 0

\* line 103, the right-hand side: the raw column, or the scalar None on
\* every row of the index
ProjectColumn(raw, raw_key) ==
    IF raw_key \in Names(raw) THEN raw.data[raw_key]
    ELSE [r \in 1..Index(raw) |-> None]

\* fault: a column only for the source fields raw_df has
ProjectedColumnsPresentOnly(raw) ==
    LET present == SelectSeq(fields, LAMBDA fld : fld[2] \in Names(raw))
    IN  [k \in 1..Len(present) |-> present[k][1]]

\* lines 101-103: one column per item of fields, in the order of the dict
\* (its keys are distinct, so every assignment adds a column at the end)
ProjectedColumns(raw) == [k \in 1..Len(fields) |-> fields[k][1]]

\* lines 106-110
NumberColumns == {"Market Cap", "Revenue"}

PercentColumns == {"Dividend Yield", "Gross Margins", "Profit Margins"}

\* Series.apply(f) of lines 106-110 on the column col; the other columns
\* are left as projected
Formatted(col, values) ==
    IF col \in NumberColumns THEN [r \in 1..Len(values) |-> format_number(values[r])]
    ELSE IF col \in PercentColumns THEN [r \in 1..Len(values) |-> format_percent(values[r])]
    ELSE values

clean_info(raw) ==
    Frame(ProjectedColumns(raw),
          [col \in {fields[k][1] : k \in 1..Len(fields)} |->
              LET k == CHOOSE j \in 1..Len(fields) : fields[j][1] = col
              IN  Formatted(col, ProjectColumn(raw, fields[k][2]))])

-----------------------------------------------------------------------------
(* What the remote provider may answer. *)

Symbols == {"BBCA.JK", "TLKM.JK"}

\* ticker_obj.info: a field bag
BagRich ==
    [shortName |-> Str("Bank Central Asia"),
     sector |-> Str("Financial Services"),
     currentPrice |-> Whole(9000),
     marketCap |-> Num(FALSE, 1100000000, 0, 0),
     dividendYield |-> Fix(532),
     totalRevenue |-> Num(FALSE, 98500000, 0, 0),
     grossMargins |-> Whole(1),
     profitMargins |-> Fix(4512),
     currency |-> Str("IDR")]

BagSparse ==
    [shortName |-> Str("Telkom Indonesia"),
     industry |-> Str("Telecom Services"),
     marketCap |-> None,
     dividendYield |-> Fix(53200),
     totalRevenue |-> Str("n/a")]

InfoBags == {BagRich, BagSparse}

\* t.major_holders, as the fetch loop meets it
HoldersResponses ==
    { Raised("ConnectionError"),
      Table(1, << <<"Institutions", Str("70.00%")>> >>),
      Table(2, << <<"Insiders (%)", Str("n/a")>>, <<"Institutions", Str("70.00%")>> >>),
      Table(2, << <<"Insiders (%)", Str("5.00%")>>, <<"Institutions", Str("70.00%")>> >>) }

\* and as a single call of the resolver meets it
Labels == {"Insiders (%)", "Institutions", "Float"}

CellStrings == {"5.00%", "70.00%", "12.5", "abc"}

TableRows == {<<l, Str(c)>> : l \in Labels, c \in CellStrings}

RECURSIVE SeqsUpTo(_, _)
SeqsUpTo(S, n) ==
    IF n = 0 THEN {<<>>}
    ELSE LET shorter == SeqsUpTo(S, n - 1)
         IN  shorter \cup {Append(q, x) : q \in {p \in shorter : Len(p) = n - 1}, x \in S}

HoldersInputs ==
    {Raised("ConnectionError"), Raised("KeyError"), HoldersNone}
    \cup {Table(2, rows) : rows \in SeqsUpTo(TableRows, MaxRows)}
    \cup {Table(1, <<row>>) : row \in TableRows}

\* arguments of the formatting helpers
NumberInputs ==
    {Num(neg, w1, w0, f) :
        neg \in BOOLEAN,
        w1 \in {0, 1, 999, 1000, 1500, 999999, 1000000, 2000000},
        w0 \in {0, 999, 999999},
        f \in {0, 5320, 9960}}

PercentInputs ==
    {Num(neg, 0, w0, f) :
        neg \in BOOLEAN, w0 \in {0, 1, 5, 100}, f \in {0, 1, 532, 3200, 9999}}

TextInputs == {Str(s) : s \in {"n/a", "", "-", "1500000000", "0.0532", "5.32", "-2000000000000", "nan"}}

FormatInputs == {None, NaN} \cup NumberInputs \cup PercentInputs \cup TextInputs

-----------------------------------------------------------------------------
(* The script: lines 128-148. *)

NoInfo == [t |-> "unbound"]

NoFrame == [t |-> "unbound"]

NoCall == [fn |-> "none"]

Lookup(op, pos, ticker, resp) == [op |-> op, pos |-> pos, ticker |-> ticker, resp |-> resp]

Slept(pos) == [op |-> "sleep", pos |-> pos]

\* fault: the degraded row given the three ownership keys too
TickerOnlyWithOwnership(t) == Update([_ticker |-> Str(t)], AllNone)

\* line 143
TickerOnly(t) == [_ticker |-> Str(t)]

\* fault: the row of a failed ticker dropped
AppendRowDropFailed(rows, row) ==
    IF DOMAIN row = {"_ticker"} THEN rows ELSE Append(rows, row)

\* line 140 and line 143: raw_rows.append
AppendRow(rows, row) == Append(rows, row)

\* line 134
WithTicker(bag, t) == Update(bag, [_ticker |-> Str(t)])

\* line 138: info.update(ownership.to_dict())
WithOwnership(d, ownership) == Update(d, ownership)

\* fault: the failed ticker fetched again
AfterExceptRetry == "fetch"

\* where the except clause of lines 141-143 leaves the loop body: at the
\* sleep of line 145, as the try does
AfterExcept == "sleep"

\* fault: the sleep inside the try, skipped when the lookup raised
DelayOnSuccessOnly(history, pos) ==
    IF IsRaised(history[Len(history)].resp) THEN history
    ELSE Append(history, Slept(pos))

\* line 145: one sleep per turn of the loop, outside the try
Delay(history, pos) == Append(history, Slept(pos))

Init ==
    /\ tickers \in SeqsUpTo(Symbols, MaxTickers)
    /\ i = 1
    /\ pc = "fetch"
    /\ info = NoInfo
    /\ raw_rows = <<>>
    /\ log = <<>>
    /\ raw_df = NoFrame
    /\ clean_df = NoFrame
    /\ call = NoCall

\* lines 129-134, the lookup answers
FetchInfoOk ==
    /\ pc = "fetch"
    /\ i <= Len(tickers)
    /\ \E bag \in InfoBags :
          /\ info' = WithTicker(bag, tickers[i])
          /\ log' = Append(log, Lookup("info", i, tickers[i], bag))
    /\ pc' = "holders"
    /\ UNCHANGED <<tickers, i, raw_rows, raw_df, clean_df, call>>

\* lines 129-133 and 141-143, the lookup raises
FetchInfoFail ==
    /\ pc = "fetch"
    /\ i <= Len(tickers)
    /\ log' = Append(log, Lookup("info", i, tickers[i], Raised("ConnectionError")))
    /\ raw_rows' = AppendRow(raw_rows, TickerOnly(tickers[i]))
    /\ pc' = AfterExcept
    /\ UNCHANGED <<tickers, i, info, raw_df, clean_df, call>>

\* lines 137-140; an exception parse_major_holders lets through lands in the
\* except of line 141
FetchHolders ==
    /\ pc = "holders"
    /\ \E resp \in HoldersResponses :
          LET ownership == parse_major_holders(resp)
          IN  /\ log' = Append(log, Lookup("holders", i, tickers[i], resp))
              /\ IF IsRaised(ownership)
                 THEN /\ raw_rows' = AppendRow(raw_rows, TickerOnly(tickers[i]))
                      /\ pc' = AfterExcept
                 ELSE /\ raw_rows' = AppendRow(raw_rows, WithOwnership(info, ownership))
                      /\ pc' = "sleep"
    /\ info' = NoInfo
    /\ UNCHANGED <<tickers, i, raw_df, clean_df, call>>

\* line 145, and the loop's next turn
Sleep ==
    /\ pc = "sleep"
    /\ log' = Delay(log, i)
    /\ i' = i + 1
    /\ pc' = "fetch"
    /\ UNCHANGED <<tickers, info, raw_rows, raw_df, clean_df, call>>

\* lines 147-148, after the last ticker
BuildFrames ==
    /\ pc = "fetch"
    /\ i > Len(tickers)
    /\ raw_df' = DataFrame(raw_rows)
    /\ clean_df' = clean_info(raw_df')
    /\ pc' = "done"
    /\ UNCHANGED <<tickers, i, info, raw_rows, log, call>>

Next == FetchInfoOk \/ FetchInfoFail \/ FetchHolders \/ Sleep \/ BuildFrames

Spec == Init /\ [][Next]_vars

-----------------------------------------------------------------------------
(* Single calls of the helpers: one call, of one helper, on one argument   *)
(* of its input set.                                                       *)

Called(fn, arg, ret) == [fn |-> fn, arg |-> arg, ret |-> ret]

InitUnit ==
    /\ tickers = <<>>
    /\ i = 1
    /\ pc = "unit"
    /\ info = NoInfo
    /\ raw_rows = <<>>
    /\ log = <<>>
    /\ raw_df = NoFrame
    /\ clean_df = NoFrame
    /\ call = NoCall

CallFormatNumber ==
    /\ pc = "unit"
    /\ call = NoCall
    /\ \E n \in FormatInputs : call' = Called("format_number", n, format_number(n))
    /\ UNCHANGED <<tickers, i, pc, info, raw_rows, log, raw_df, clean_df>>

CallFormatPercent ==
    /\ pc = "unit"
    /\ call = NoCall
    /\ \E p \in FormatInputs : call' = Called("format_percent", p, format_percent(p))
    /\ UNCHANGED <<tickers, i, pc, info, raw_rows, log, raw_df, clean_df>>

CallParseMajorHolders ==
    /\ pc = "unit"
    /\ call = NoCall
    /\ \E resp \in HoldersInputs :
          call' = Called("parse_major_holders", resp, parse_major_holders(resp))
    /\ UNCHANGED <<tickers, i, pc, info, raw_rows, log, raw_df, clean_df>>

NextUnit == CallFormatNumber \/ CallFormatPercent \/ CallParseMajorHolders

SpecUnit == InitUnit /\ [][NextUnit]_vars

-----------------------------------------------------------------------------
(* What the history says about a position of the ticker list. *)

Entries(op, k) == {j \in 1..Len(log) : log[j].op = op /\ log[j].pos = k}

Answer(op, k) == log[CHOOSE j \in Entries(op, k) : TRUE].resp

InfoFailed(k) == Entries("info", k) # {} /\ IsRaised(Answer("info", k))

InfoSucceeded(k) == Entries("info", k) # {} /\ ~IsRaised(Answer("info", k))

LoopEnded == pc = "done" \/ (pc = "fetch" /\ i > Len(tickers))

-----------------------------------------------------------------------------
(* C1: when the fetch loop has ended, raw_rows has exactly one entry per   *)
(* input ticker, and its k-th entry carries the k-th input ticker under    *)
(* "_ticker", whatever the remote lookups answered.                        *)
C1_OneRowPerTicker ==
    LoopEnded =>
        /\ Len(raw_rows) = Len(tickers)
        /\ \A k \in 1..Len(tickers) :
              /\ "_ticker" \in DOMAIN raw_rows[k]
              /\ raw_rows[k]["_ticker"] = Str(tickers[k])

\* the run over a full list, a repeated symbol in it, in which every lookup failed
C1_Witness ==
    /\ pc = "done"
    /\ Len(tickers) >= 3
    /\ tickers[1] = tickers[3] /\ tickers[1] # tickers[2]
    /\ \A k \in 1..Len(tickers) : InfoFailed(k)
    /\ Len(raw_rows) = Len(tickers)

(* C2 as stated: the cleaned table has exactly 19 columns.                 *)
C2_NineteenColumns ==
    pc = "done" => Len(clean_df.columns) = 19

CleanedNames == <<
    "Ticker", "Name", "Sector", "Industry", "Current Price", "52W High",
    "52W Low", "Market Cap", "P/E (Trailing)", "P/E (Forward)", "Beta",
    "Dividend Yield", "Price to Book", "EPS", "Revenue", "Gross Margins",
    "Profit Margins", "Insider (%)", "Institutional (%)",
    "Float / Retail (%)" >>

(* C2, amended: the cleaned table always has exactly the 20 fixed column   *)
(* names, in the fixed order, each with one cell per raw row, whatever     *)
(* fields the raw rows hold.                                               *)
C2_TwentyColumns ==
    pc = "done" =>
        /\ clean_df.columns = CleanedNames
        /\ Len(clean_df.columns) = 20
        /\ DOMAIN clean_df.data = {CleanedNames[k] : k \in 1..20}
        /\ \A c \in DOMAIN clean_df.data : Len(clean_df.data[c]) = Len(raw_rows)

\* a table of rows in which a source field is missing from every row and
\* one row holds the ticker only
C2_Witness ==
    /\ pc = "done"
    /\ Len(raw_rows) >= 2
    /\ "beta" \notin Names(raw_df)
    /\ \E r \in 1..Len(raw_rows) : DOMAIN raw_rows[r] = {"_ticker"}
    /\ \E r \in 1..Len(raw_rows) : "marketCap" \in DOMAIN raw_rows[r]
    /\ Len(clean_df.columns) = 20

-----------------------------------------------------------------------------
(* The answers of the major-holders lookup, as the claims sort them. *)

IsTable(resp) == resp.t = "table"

CellOf(resp, label) == DictGet(resp.rows, label)

CellParses(v) == v = None \/ ParseFloat(Strip(v.s)) # ValueError

Parsed(v) == ParseFloat(Strip(v.s))

\* a non-empty table of two columns whose two looked-up cells are numbers
ParsesWell(resp) ==
    /\ IsTable(resp)
    /\ ~Empty(resp)
    /\ resp.ncols = 2
    /\ CellParses(CellOf(resp, "Insiders (%)"))
    /\ CellParses(CellOf(resp, "Institutions"))

\* the lookup raises, the table lacks its value column, or a looked-up cell
\* is no number
HoldersFails(resp) ==
    \/ IsRaised(resp)
    \/ /\ IsTable(resp)
       /\ ~Empty(resp)
       /\ \/ resp.ncols < 2
          \/ ~CellParses(CellOf(resp, "Insiders (%)"))
          \/ ~CellParses(CellOf(resp, "Institutions"))

(* C3: on a non-empty table that parses, Insider and Institutional are the *)
(* parsed cells or absent, Float/Retail is absent without Institutional,   *)
(* 100 - Institutional without Insider and 100 - Institutional - Insider   *)
(* otherwise, so three present values sum to 100; an empty or absent table *)
(* gives three absent values.                                              *)
C3_OwnershipDerivation ==
    call.fn = "parse_major_holders" =>
        LET resp == call.arg
            ret  == call.ret
        IN  /\ (resp = HoldersNone \/ (IsTable(resp) /\ Empty(resp))) =>
                  \A k \in OwnershipKeys : ret[k] = None
            /\ ParsesWell(resp) =>
                  LET ins  == CellOf(resp, "Insiders (%)")
                      inst == CellOf(resp, "Institutions")
                  IN  /\ IF ins = None THEN IsAbsent(ret["Insider (%)"])
                         ELSE ret["Insider (%)"] = Parsed(ins)
                      /\ IF inst = None THEN IsAbsent(ret["Institutional (%)"])
                         ELSE ret["Institutional (%)"] = Parsed(inst)
                      /\ IF inst = None THEN IsAbsent(ret["Float / Retail (%)"])
                         ELSE IF ins = None
                         THEN ToFix(ret["Float / Retail (%)"])
                                = 100 * FracUnit - ToFix(Parsed(inst))
                         ELSE ToFix(ret["Float / Retail (%)"])
                                = 100 * FracUnit - ToFix(Parsed(inst)) - ToFix(Parsed(ins))
                      /\ (\A k \in OwnershipKeys : IsNum(ret[k])) =>
                            ToFix(ret["Insider (%)"]) + ToFix(ret["Institutional (%)"])
                              + ToFix(ret["Float / Retail (%)"]) = 100 * FracUnit

\* the resolver on the table of insiders 5.00% and institutions 70.00%
C3_Witness ==
    /\ call.fn = "parse_major_holders"
    /\ call.arg = Table(2, << <<"Insiders (%)", Str("5.00%")>>,
                              <<"Institutions", Str("70.00%")>> >>)
    /\ call.ret["Insider (%)"] = Whole(5)
    /\ call.ret["Institutional (%)"] = Whole(70)
    /\ call.ret["Float / Retail (%)"] = Whole(25)

(* C4: a ticker whose full-info lookup failed has a row holding the ticker *)
(* symbol only; every other row is what its own two answers make it; and   *)
(* the loop goes on to look up every ticker of the list.                   *)
C4_FailureDegradesItsRowOnly ==
    /\ Len(raw_rows) \in {i - 1, i}
    /\ \A k \in 1..Len(raw_rows) :
          /\ InfoFailed(k) => raw_rows[k] = [_ticker |-> Str(tickers[k])]
          /\ InfoSucceeded(k) =>
                raw_rows[k] =
                    Update(Update(Answer("info", k), [_ticker |-> Str(tickers[k])]),
                           parse_major_holders(Answer("holders", k)))
    /\ LoopEnded => \A k \in 1..Len(tickers) : Entries("info", k) # {}

\* a failed lookup between two that succeeded
C4_Witness ==
    /\ pc = "done"
    /\ Len(tickers) >= 3
    /\ InfoSucceeded(1) /\ InfoFailed(2) /\ InfoSucceeded(3)
    /\ DOMAIN raw_rows[2] = {"_ticker"}
    /\ "shortName" \in DOMAIN raw_rows[1]
    /\ "shortName" \in DOMAIN raw_rows[3]

(* C5: when the major-holders lookup or its parsing fails, the row of that *)
(* ticker holds every field of the full-info answer, the ticker and three  *)
(* absent ownership fields, and the loop goes on to the next ticker.       *)
C5_HoldersFailureAbsorbed ==
    /\ \A k \in 1..Len(raw_rows) :
          (InfoSucceeded(k) /\ HoldersFails(Answer("holders", k))) =>
              LET bag == Answer("info", k)
                  row == raw_rows[k]
              IN  /\ \A f \in DOMAIN bag : f \in DOMAIN row /\ row[f] = bag[f]
                  /\ \A o \in OwnershipKeys : o \in DOMAIN row /\ row[o] = None
                  /\ row["_ticker"] = Str(tickers[k])
    /\ LoopEnded => \A k \in 1..Len(tickers) : Entries("info", k) # {}

\* each kind of failure, and a ticker looked up after one
C5_Witness ==
    /\ pc = "done"
    /\ Len(tickers) >= 3
    /\ \A k \in 1..3 : InfoSucceeded(k)
    /\ IsRaised(Answer("holders", 1))
    /\ Answer("holders", 2) = Table(1, << <<"Institutions", Str("70.00%")>> >>)
    /\ Answer("holders", 3) = Table(2, << <<"Insiders (%)", Str("n/a")>>,
                                          <<"Institutions", Str("70.00%")>> >>)
    /\ \A k \in 1..3 : raw_rows[k]["Institutional (%)"] = None
    /\ "marketCap" \in DOMAIN raw_rows[3]

(* C6 as stated: in the cleaned table, the column of a source field that a *)
(* raw row lacks holds an absent value on that row, the five formatted     *)
(* columns included.                                                       *)
C6_AbsentStaysAbsent ==
    pc = "done" =>
        \A r \in 1..Len(raw_rows) : \A k \in 1..Len(fields) :
            fields[k][2] \notin DOMAIN raw_rows[r] =>
                IsAbsent(clean_df.data[fields[k][1]][r])

-----------------------------------------------------------------------------
(* The reference of format_percent: a number against 1. *)

AboveOne(p) == ~p.neg /\ (p.w1 > 0 \/ p.w0 > 1 \/ (p.w0 = 1 /\ p.f > 0))

ExactlyOne(p) == ~p.neg /\ p.w1 = 0 /\ p.w0 = 1 /\ p.f = 0

PercentOf(p, times) ==
    Str(Fixed2(p.neg, IF times = 100 THEN Times100(p) ELSE Scaled(p, 0)) \o "%")

(* C7 as stated: None gives None, a number above 1 is rendered as itself,  *)
(* a number below 1 is multiplied by 100, exactly 1.0 is rendered "1.00%", *)
(* and text that is no number is returned unchanged.                       *)
C7_OneIsOnePercent ==
    call.fn = "format_percent" =>
        LET p == call.arg
        IN  /\ p = None => call.ret = None
            /\ (IsNum(p) /\ AboveOne(p)) => call.ret = PercentOf(p, 1)
            /\ (IsNum(p) /\ ~AboveOne(p) /\ ~ExactlyOne(p)) => call.ret = PercentOf(p, 100)
            /\ (IsNum(p) /\ ExactlyOne(p)) => call.ret = Str("1.00%")
            /\ (IsStr(p) /\ ParseFloat(p.s) = ValueError) => call.ret = p

(* C7, amended: None gives None, a number above 1 is rendered as itself, a *)
(* number below 1 is multiplied by 100, exactly 1.0 is multiplied by 100   *)
(* too and rendered "100.00%", and text is returned unchanged.             *)
C7_OneIsHundredPercent ==
    call.fn = "format_percent" =>
        LET p == call.arg
        IN  /\ p = None => call.ret = None
            /\ (IsNum(p) /\ AboveOne(p)) => call.ret = PercentOf(p, 1)
            /\ (IsNum(p) /\ ~AboveOne(p) /\ ~ExactlyOne(p)) => call.ret = PercentOf(p, 100)
            /\ (IsNum(p) /\ ExactlyOne(p)) => call.ret = Str("100.00%")
            /\ IsStr(p) => call.ret = p

\* format_percent(1.0)
C7_Witness ==
    call = Called("format_percent", Whole(1), Str("100.00%"))

(* C8: format_number divides by 10^12, 10^9 or 10^6 and appends " T", " B" *)
(* or " M" by the largest of the thresholds the absolute value reaches,    *)
(* does not scale below 10^6, keeps the sign, gives None for None and      *)
(* returns text that is no number unchanged.                               *)
C8_ScaleByMagnitude ==
    call.fn = "format_number" =>
        LET n   == call.arg
            ret == call.ret
        IN  /\ n = None => ret = None
            /\ (IsStr(n) /\ ParseFloat(n.s) = ValueError) => ret = n
            /\ (n # None /\ IsNum(Float(n))) =>
                  LET x == Float(n)
                      T == x.w1 >= 1000000
                      B == ~T /\ x.w1 >= 1000
                      M == ~T /\ ~B /\ x.w1 >= 1
                      tail == SubSeq(ret.s, Len(ret.s) - 1, Len(ret.s))
                  IN  /\ IsStr(ret)
                      /\ T => ret.s = Fixed2(x.neg, Scaled(x, 12)) \o " T"
                      /\ B => ret.s = Fixed2(x.neg, Scaled(x, 9)) \o " B"
                      /\ M => ret.s = Fixed2(x.neg, Scaled(x, 6)) \o " M"
                      /\ (~T /\ ~B /\ ~M) => ret.s = Fixed2(x.neg, Scaled(x, 0))
                      /\ (tail = " T") <=> T
                      /\ (tail = " B") <=> B
                      /\ (tail = " M") <=> M
                      /\ (Char(ret.s, 1) = "-") <=> x.neg

\* format_number(-2_000_000_000_000)
C8_Witness ==
    call = Called("format_number", Num(TRUE, 2000000, 0, 0), Str("-2.00 T"))

-----------------------------------------------------------------------------
(* C9: every position of the ticker list gets one full-info lookup and at  *)
(* most one major-holders lookup; the latter comes after a full-info       *)
(* lookup of the same position that succeeded, and never after one that    *)
(* failed.                                                                 *)
C9_NoRetry ==
    /\ \A j \in 1..Len(log) :
          log[j].pos \in 1..Len(tickers)
    /\ \A k \in 1..Len(tickers) :
          /\ Cardinality(Entries("info", k)) <= 1
          /\ Cardinality(Entries("holders", k)) <= 1
          /\ (k < i \/ LoopEnded) => Cardinality(Entries("info", k)) = 1
          /\ InfoFailed(k) => Entries("holders", k) = {}
          /\ \A h \in Entries("holders", k) :
                /\ InfoSucceeded(k)
                /\ \A e \in Entries("info", k) : e < h

\* a run in which one lookup failed and a later one succeeded
C9_Witness ==
    /\ pc = "done"
    /\ Len(tickers) >= 2
    /\ InfoFailed(1) /\ Entries("holders", 1) = {}
    /\ InfoSucceeded(2) /\ Cardinality(Entries("holders", 2)) = 1

(* C10: the loop sleeps once per ticker, after the lookups of that ticker  *)
(* whether they failed or not, so N times in all, and always between the   *)
(* lookups of one ticker and the first lookup of the next.                 *)
C10_OneDelayPerAttempt ==
    /\ \A j \in 1..Len(log) :
          /\ (log[j].op = "info" /\ log[j].pos > 1) =>
                (j > 1 /\ log[j - 1] = Slept(log[j].pos - 1))
          /\ log[j].op = "sleep" =>
                (j > 1 /\ log[j - 1].op \in {"info", "holders"}
                       /\ log[j - 1].pos = log[j].pos)
    /\ \A k \in 1..Len(tickers) : Cardinality(Entries("sleep", k)) <= 1
    /\ LoopEnded =>
          /\ \A k \in 1..Len(tickers) : Cardinality(Entries("sleep", k)) = 1
          /\ Cardinality({j \in 1..Len(log) : log[j].op = "sleep"}) = Len(tickers)

\* a run with a failed and a successful attempt, each followed by its sleep
C10_Witness ==
    /\ pc = "done"
    /\ Len(tickers) >= 2
    /\ InfoFailed(1) /\ InfoSucceeded(2)
    /\ Cardinality({j \in 1..Len(log) : log[j].op = "sleep"}) = Len(tickers)

=============================================================================
